---- MODULE Spec2Model ----
(***************************************************************************)
(* Model of the SQS consumer of D-sense/event-processor, of the event       *)
(* processor it calls (validator, triage, client permissions, record       *)
(* store) and of the consumer's Start and Stop.                            *)
(*                                                                         *)
(* The repository holds two lineages of the consumer:                      *)
(*   "v2"  src/internal/consumer/sqs_consumer.go (aws-sdk-go-v2, the one   *)
(*         cmd/server/main.go starts and the consumer tests exercise);     *)
(*   "v1"  src/unnamed/part_002 lines 1-254 (aws-sdk-go, worker pool).     *)
(* The variable impl fixes which lineage runs; it never changes.           *)
(*                                                                         *)
(* The queue backend (SQS) is the environment: every SendMessage and       *)
(* DeleteMessage may succeed or fail, a received message is hidden until   *)
(* it is deleted or its visibility timeout expires.                        *)
(***************************************************************************)
EXTENDS Integers, Sequences, FiniteSets, TLC

\* ------------------------------------------------------------ bounds
\* messages ever put on the main queue (the producer's and the re-enqueued)
MaxMsgs == 4
\* goroutines running processMessage at the same time
MaxWorkers == 1
\* messages ever put on the dead letter queue
MaxDLQ == 1
\* SendMessage and DeleteMessage calls that the backend fails
MaxFaults == 1
\* goroutines that call Start and Stop
MaxCallers == 2
\* calls of Start and Stop that one goroutine makes
MaxCalls == 2
\* pollMessages calls of the receive loops
MaxPolls == 2

\* deliveries the dispatcher model hands out
MaxDeliveries == 11
\* characters of a RetryCount attribute value handed to getRetryCount
MaxAttrLen == 2
\* the latest reading of the clock, in ticks
MaxTicks == 3

\* ------------------------------------------------------------ program constants
\* sqs_consumer.go:54 maxRetries: 3 ; part_002:20 eventProcessorMaxRetries = 3
maxRetries == 3
\* sqs_consumer.go:56 batchSize: 10
batchSize == 10
\* part_002:250 cap of the backoff, in seconds
maxDelaySeconds == 300
\* sqs_consumer.go:213 DelaySeconds: int32(newRetryCount * 5)
linearDelayFactor == 5

\* part_004 52: getEnvAsInt("WORKER_POOL_SIZE", 10)
workerPoolSize == 10

\* event.go:68 time.Now().Add(30 * 24 * time.Hour), in seconds
thirtyDays == 2592000

\* ProcessEvent invocations counted per logical message: one more than the
\* maxRetries + 1 of the retry bound
MaxProcess == maxRetries + 2

Variants == {"v2", "v1"}

\* ------------------------------------------------------------ strings
\* An attribute value is a Go string, modelled as a sequence of characters.
DigitChars == <<"0", "1", "2", "3", "4", "5", "6", "7", "8", "9">>

IsDigit(c) == \E i \in 1..10 : DigitChars[i] = c

DigitVal(c) == (CHOOSE i \in 1..10 : DigitChars[i] = c) - 1

\* value of a sequence of digit characters, most significant first
RECURSIVE DigitsValue(_)
DigitsValue(s) ==
    IF s = <<>> THEN 0
    ELSE 10 * DigitsValue(SubSeq(s, 1, Len(s) - 1)) + DigitVal(s[Len(s)])

\* strconv.Itoa / fmt.Sprintf("%d", n)
RECURSIVE Itoa(_)
Itoa(n) ==
    IF n < 0 THEN <<"-">> \o Itoa(0 - n)
    ELSE IF n < 10 THEN <<DigitChars[n + 1]>>
    ELSE Itoa(n \div 10) \o <<DigitChars[(n % 10) + 1]>>

\* strconv.Atoi: [ok, val]; an optional sign, then digits only, at least one
Atoi(s) ==
    LET signed == s # <<>> /\ s[1] \in {"+", "-"}
        ds == IF signed THEN Tail(s) ELSE s
        ok == ds # <<>> /\ \A i \in 1..Len(ds) : IsDigit(ds[i])
    IN  [ok |-> ok,
         val |-> IF ~ok THEN 0
                 ELSE IF signed /\ s[1] = "-" THEN 0 - DigitsValue(ds)
                 ELSE DigitsValue(ds)]

\* the longest prefix of s made of digits
RECURSIVE DigitPrefix(_)
DigitPrefix(s) ==
    IF s = <<>> \/ ~IsDigit(s[1]) THEN <<>>
    ELSE <<s[1]>> \o DigitPrefix(Tail(s))

\* fmt.Sscanf(s, "%d", &count) on count = 0: leading spaces are skipped, an
\* optional sign and the leading digits are read, the rest is left unread;
\* with no digit, count keeps its zero value
RECURSIVE SkipSpaces(_)
SkipSpaces(s) == IF s # <<>> /\ s[1] = " " THEN SkipSpaces(Tail(s)) ELSE s

SscanfInt(s) ==
    LET t == SkipSpaces(s)
        signed == t # <<>> /\ t[1] \in {"+", "-"}
        ds == DigitPrefix(IF signed THEN Tail(t) ELSE t)
    IN  IF ds = <<>> THEN 0
        ELSE IF signed /\ t[1] = "-" THEN 0 - DigitsValue(ds)
        ELSE DigitsValue(ds)

\* ------------------------------------------------------------ messages
\* A message attribute: absent from the map, or present with a string value.
NoAttr == [present |-> FALSE, str |-> <<>>]
StrAttr(s) == [present |-> TRUE, str |-> s]

\* RetryCount attribute values the producer may send
InitAttrs == {NoAttr, StrAttr(<<"2">>), StrAttr(<<"3">>), StrAttr(<<"4">>)}

\* Message bodies, as sequences of text fragments: a valid monitoring event of
\* an active client, a body that is not JSON, a transaction event without its
\* currency, and a valid monitoring event of an inactive client.
GoodBody == <<"{event}">>
BadBody == <<"{not json">>
TriageBody == <<"{transaction, no currency}">>
DeniedBody == <<"{event, client-003}">>

\* what the producer may send: an event with any of the attributes, or one of
\* the other bodies (the last two one retry under the maximum)
InitInputs ==
    ({GoodBody} \X InitAttrs)
      \cup {<<BadBody, NoAttr>>, <<TriageBody, StrAttr(<<"2">>)>>,
            <<DeniedBody, StrAttr(<<"2">>)>>}

\* ------------------------------------------------------------ events
\* pkg/models/event.go
EventTypeMonitoring == "monitoring"
EventTypeUserAction == "user_action"
EventTypeTransaction == "transaction"
EventTypeIntegration == "integration"

EventStatusPending == "pending"
EventStatusProcessed == "processed"
EventStatusFailed == "failed"

IsValidEventType(eventType) ==
    eventType \in {EventTypeMonitoring, EventTypeUserAction,
                   EventTypeTransaction, EventTypeIntegration}

\* A Go error: nil, or a message made of text fragments. fmt.Errorf with %w,
\* %v or %s of a value appends the fragments of the value.
NoError == <<>>

Contains(err, fragment) == \E i \in DOMAIN err : err[i] = fragment

\* A payload is a map from keys to values; a value has a dynamic type.
StringValue(s) == [type |-> "string", v |-> s]
NumberValue(n) == [type |-> "float64", v |-> n]
BoolValue(b) == [type |-> "bool", v |-> b]

EmptyPayload == [k \in {} |-> StringValue("")]

\* m[k] = x on a map
Put(m, k, x) == [j \in DOMAIN m \cup {k} |-> IF j = k THEN x ELSE m[j]]

\* the value that time.Now().UTC().Format(time.RFC3339) writes
TimeStamp == StringValue("<now>")

\* Event.ToProcessedEvent: the envelope holds a copy of the Event struct, so
\* its Payload is the same map as the event's (shared), Status is pending.
ToProcessedEvent(e) ==
    [EventID |-> e.EventID, EventType |-> e.EventType, ClientID |-> e.ClientID,
     Payload |-> e.Payload, shared |-> TRUE,
     Status |-> EventStatusPending, ErrorMsg |-> NoError, RetryCount |-> 0]

\* ------------------------------------------------------------ validator
\* What ValidateAndParseEvent is given: bytes that are JSON or not, that the
\* JSON schema accepts or not, and the Event that json.Unmarshal yields.
Document(json, schema, event) == [json |-> json, schema |-> schema, event |-> event]

\* part_002 340-359 ValidateEventBytes
ValidateEventBytes(doc) ==
    IF ~doc.json THEN <<"validation error: ", "invalid JSON">>
    ELSE IF ~doc.schema THEN <<"validation failed: ", "schema errors">>
    ELSE NoError

\* part_002 362-384 validateBusinessRules
validateBusinessRules(event) ==
    IF ~IsValidEventType(event.EventType)
    THEN <<"invalid event type: ", event.EventType>>
    ELSE IF event.ClientID = "" THEN <<"client ID cannot be empty">>
    ELSE IF DOMAIN event.Payload = {} THEN <<"payload cannot be empty">>
    ELSE IF event.Timestamp = 0 THEN <<"timestamp cannot be zero">>
    ELSE NoError

\* part_002 294-336 ValidateAndParseEvent: [err, event]
ValidateAndParseEvent(doc) ==
    IF ValidateEventBytes(doc) # NoError
    THEN [err |-> ValidateEventBytes(doc), event |-> doc.event]
    ELSE [err |-> validateBusinessRules(doc.event), event |-> doc.event]

\* ------------------------------------------------------------ triage
\* The result of a type-specific step: its error, the envelope and the input
\* event after the call (the envelope's map may be the event's own).
TriageStep(err, pe, event) == [err |-> err, pe |-> pe, event |-> event]

\* the first field of the list that the payload lacks, or "" when none
RECURSIVE FirstMissing(_, _)
FirstMissing(requiredFields, payload) ==
    IF requiredFields = <<>> THEN ""
    ELSE IF requiredFields[1] \notin DOMAIN payload THEN requiredFields[1]
    ELSE FirstMissing(Tail(requiredFields), payload)

\* the writes `processedEvent.Payload[k] = v` of a step: they land in the
\* event's map too while the envelope shares it
Enriched(pe, event, k, x) ==
    TriageStep(NoError,
               [pe EXCEPT !.Payload = Put(pe.Payload, k, x)],
               IF pe.shared THEN [event EXCEPT !.Payload = Put(event.Payload, k, x)]
               ELSE event)

\* event_processor_test.go 967-987: a string severity of critical or high
\* gives the envelope a fresh map with priority = high
processMonitoringEvent(event, pe) ==
    IF /\ "severity" \in DOMAIN event.Payload
       /\ event.Payload["severity"].type = "string"
       /\ event.Payload["severity"].v \in {"critical", "high"}
    THEN TriageStep(NoError,
                    [pe EXCEPT !.Payload = Put(event.Payload, "priority", StringValue("high")),
                               !.shared = FALSE],
                    event)
    ELSE TriageStep(NoError, pe, event)

userActionFields == <<"userId", "action", "resource">>
transactionFields == <<"transactionId", "amount", "currency">>
integrationFields == <<"source", "target", "operation">>

\* event_processor_test.go 990-1011
processUserActionEvent(event, pe) ==
    IF FirstMissing(userActionFields, event.Payload) # ""
    THEN TriageStep(<<"missing required field for user action: ",
                      FirstMissing(userActionFields, event.Payload)>>, pe, event)
    ELSE Enriched(pe, event, "processedAt", TimeStamp)

highValueThreshold == 10000

\* processTransactionEvent with the threshold compared by >=
processTransactionEvent_ge(event, pe) ==
    IF FirstMissing(transactionFields, event.Payload) # ""
    THEN TriageStep(<<"missing required field for transaction: ",
                      FirstMissing(transactionFields, event.Payload)>>, pe, event)
    ELSE IF /\ event.Payload["amount"].type = "float64"
            /\ event.Payload["amount"].v >= highValueThreshold
         THEN Enriched(pe, event, "highValue", BoolValue(TRUE))
         ELSE TriageStep(NoError, pe, event)

\* event_processor_test.go 1014-1042
processTransactionEvent(event, pe) ==
    IF FirstMissing(transactionFields, event.Payload) # ""
    THEN TriageStep(<<"missing required field for transaction: ",
                      FirstMissing(transactionFields, event.Payload)>>, pe, event)
    ELSE IF /\ event.Payload["amount"].type = "float64"
            /\ event.Payload["amount"].v > highValueThreshold
         THEN Enriched(pe, event, "highValue", BoolValue(TRUE))
         ELSE TriageStep(NoError, pe, event)

\* processIntegrationEvent without the check of the required fields
processIntegrationEvent_nocheck(event, pe) ==
    Enriched(pe, event, "integrationProcessedAt", TimeStamp)

\* event_processor_test.go 1045-1066
processIntegrationEvent(event, pe) ==
    IF FirstMissing(integrationFields, event.Payload) # ""
    THEN TriageStep(<<"missing required field for integration: ",
                      FirstMissing(integrationFields, event.Payload)>>, pe, event)
    ELSE Enriched(pe, event, "integrationProcessedAt", TimeStamp)

\* ------------------------------------------------------------ client policy
\* What GetItem on the events-clients table returns: an error, no item, or an
\* item with its allowed_types and its active attribute (absent, or a boolean).
GetItemError == [err |-> TRUE, found |-> FALSE, active |-> "absent", allowed_types |-> {}]
NoItem == [err |-> FALSE, found |-> FALSE, active |-> "absent", allowed_types |-> {}]
Item(active, allowedTypes) ==
    [err |-> FALSE, found |-> TRUE, active |-> active, allowed_types |-> allowedTypes]

\* dynamodb_repository.go 114-160 GetClientConfig: [err, config]; Active
\* defaults to true
GetClientConfig(clientID, result) ==
    IF result.err
    THEN [err |-> <<"failed to get client config: ", "GetItem error">>,
          config |-> [Active |-> FALSE, AllowedTypes |-> {}]]
    ELSE IF ~result.found
    THEN [err |-> <<"client config not found: ", clientID>>,
          config |-> [Active |-> FALSE, AllowedTypes |-> {}]]
    ELSE [err |-> NoError,
          config |-> [Active |-> result.active # "false",
                      AllowedTypes |-> result.allowed_types]]

\* validateClientPermissions that denies whenever the lookup fails
validateClientPermissions_strict(clientID, eventType, lookup) ==
    IF lookup.err # NoError THEN <<"client policy lookup failed">>
    ELSE IF ~lookup.config.Active THEN <<"client ", clientID, " is not active">>
    ELSE IF eventType \notin lookup.config.AllowedTypes
    THEN <<"client ", clientID, " is not allowed to send events of type ", eventType>>
    ELSE NoError

\* validateClientPermissions that does not look at the active flag
validateClientPermissions_noactive(clientID, eventType, lookup) ==
    IF lookup.err # NoError THEN NoError
    ELSE IF eventType \notin lookup.config.AllowedTypes
    THEN <<"client ", clientID, " is not allowed to send events of type ", eventType>>
    ELSE NoError

\* event_processor_test.go 1069-1096 validateClientPermissions, on the result
\* of GetClientConfig: any lookup error allows
validateClientPermissions(clientID, eventType, lookup) ==
    IF lookup.err # NoError THEN NoError
    ELSE IF ~lookup.config.Active THEN <<"client ", clientID, " is not active">>
    ELSE IF eventType \notin lookup.config.AllowedTypes
    THEN <<"client ", clientID, " is not allowed to send events of type ", eventType>>
    ELSE NoError

\* ------------------------------------------------------------ triageEvent
\* event_processor_test.go 928-949: the switch on the event type; an unknown
\* type marks the envelope failed and is no error
triageSwitch(event, pe) ==
    IF event.EventType = EventTypeMonitoring THEN processMonitoringEvent(event, pe)
    ELSE IF event.EventType = EventTypeUserAction THEN processUserActionEvent(event, pe)
    ELSE IF event.EventType = EventTypeTransaction THEN processTransactionEvent(event, pe)
    ELSE IF event.EventType = EventTypeIntegration THEN processIntegrationEvent(event, pe)
    ELSE TriageStep(NoError,
                    [pe EXCEPT !.Status = EventStatusFailed,
                               !.ErrorMsg = <<"unknown event type: ", event.EventType>>],
                    event)

\* permissionChecked that leaves a failure of the switch in place
permissionChecked_keep(pe, permErr) ==
    IF permErr # NoError /\ pe.Status = EventStatusPending
    THEN [pe EXCEPT !.Status = EventStatusFailed,
                    !.ErrorMsg = <<"client permission error: ">> \o permErr]
    ELSE pe

\* permissionChecked that marks the envelope failed without a message
permissionChecked_silent(pe, permErr) ==
    IF permErr # NoError
    THEN [pe EXCEPT !.Status = EventStatusFailed]
    ELSE pe

\* permissionChecked that drops the permission error
permissionChecked_ignore(pe, permErr) == pe

\* event_processor_test.go 951-956: a permission error marks the envelope
\* failed, overwriting what the switch wrote
permissionChecked(pe, permErr) ==
    IF permErr # NoError
    THEN [pe EXCEPT !.Status = EventStatusFailed,
                    !.ErrorMsg = <<"client permission error: ">> \o permErr]
    ELSE pe

\* finalStatus that marks every envelope processed
finalStatus_always(pe) == [pe EXCEPT !.Status = EventStatusProcessed]

\* event_processor_test.go 958-961
finalStatus(pe) ==
    IF pe.Status = EventStatusPending THEN [pe EXCEPT !.Status = EventStatusProcessed]
    ELSE pe

\* event_processor_test.go 924-964 triageEvent, given what GetItem returns:
\* [err, hasEnvelope, pe, event, permErr]
triageEvent(event, getItem) ==
    LET step == triageSwitch(event, ToProcessedEvent(event))
        permErr == validateClientPermissions(event.ClientID, event.EventType,
                       GetClientConfig(event.ClientID, getItem))
    IN  IF step.err # NoError
        THEN [err |-> step.err, hasEnvelope |-> FALSE, pe |-> step.pe,
              event |-> step.event, permErr |-> NoError]
        ELSE [err |-> NoError, hasEnvelope |-> TRUE,
              pe |-> finalStatus(permissionChecked(step.pe, permErr)),
              event |-> step.event, permErr |-> permErr]

\* ------------------------------------------------------------ ProcessEvent
\* dynamodb_repository.go 66-101 SaveEvent: the item PutItem is given; the
\* error_msg attribute is present only for a non-empty ErrorMsg
SavedItem(pe) ==
    [event_id |-> pe.EventID, event_type |-> pe.EventType, client_id |-> pe.ClientID,
     payload |-> pe.Payload, status |-> pe.Status,
     has_error_msg |-> pe.ErrorMsg # NoError, error_msg |-> pe.ErrorMsg,
     retry_count |-> pe.RetryCount]

SaveEvent(pe, putOK) ==
    IF putOK THEN NoError ELSE <<"failed to save event to DynamoDB: ", "PutItem error">>

\* ProcessEvent that returns the permission error of triage as its own and
\* does not save
ProcessEvent_deny(doc, getItem, putOK) ==
    LET v == ValidateAndParseEvent(doc)
        t == triageEvent(v.event, getItem)
    IN  IF v.err # NoError
        THEN [err |-> <<"validation failed: ">> \o v.err, saves |-> <<>>,
              stored |-> FALSE, validated |-> FALSE, triage |-> t]
        ELSE IF t.err # NoError \/ t.permErr # NoError
        THEN [err |-> <<"triage failed: ">> \o t.err \o t.permErr, saves |-> <<>>,
              stored |-> FALSE, validated |-> TRUE, triage |-> t]
        ELSE IF SaveEvent(t.pe, putOK) # NoError
        THEN [err |-> <<"persistence failed: ">> \o SaveEvent(t.pe, putOK),
              saves |-> <<t.pe>>, stored |-> FALSE, validated |-> TRUE, triage |-> t]
        ELSE [err |-> NoError, saves |-> <<t.pe>>, stored |-> TRUE,
              validated |-> TRUE, triage |-> t]

\* event_processor_test.go 873-921 ProcessEvent, given what GetItem returns and
\* whether PutItem succeeds: its error, the envelopes it passed to SaveEvent,
\* whether the item was stored, and what the validator and triage returned
ProcessEvent(doc, getItem, putOK) ==
    LET v == ValidateAndParseEvent(doc)
        t == triageEvent(v.event, getItem)
    IN  IF v.err # NoError
        THEN [err |-> <<"validation failed: ">> \o v.err, saves |-> <<>>,
              stored |-> FALSE, validated |-> FALSE, triage |-> t]
        ELSE IF t.err # NoError
        THEN [err |-> <<"triage failed: ">> \o t.err, saves |-> <<>>,
              stored |-> FALSE, validated |-> TRUE, triage |-> t]
        ELSE IF SaveEvent(t.pe, putOK) # NoError
        THEN [err |-> <<"persistence failed: ">> \o SaveEvent(t.pe, putOK),
              saves |-> <<t.pe>>, stored |-> FALSE, validated |-> TRUE, triage |-> t]
        ELSE [err |-> NoError, saves |-> <<t.pe>>, stored |-> TRUE,
              validated |-> TRUE, triage |-> t]

\* ------------------------------------------------------------ processor inputs
\* the payloads of the test fixtures (event_processor_test.go 687-788) and
\* their neighbours
Without(m, k) == [j \in DOMAIN m \ {k} |-> m[j]]

MonitoringPayload(severity) ==
    [k \in {"severity", "message"} |->
        IF k = "severity" THEN severity ELSE StringValue("Test event")]

UserActionPayload ==
    [k \in {"userId", "action", "resource"} |-> StringValue(k)]

TransactionPayload(amount) ==
    [k \in {"transactionId", "amount", "currency"} |->
        IF k = "amount" THEN amount ELSE StringValue(k)]

IntegrationPayload ==
    [k \in {"source", "target", "operation"} |-> StringValue(k)]

Amounts == {NumberValue(5000), NumberValue(highValueThreshold),
            NumberValue(highValueThreshold + 1), StringValue("15000")}

Severities == {StringValue("medium"), StringValue("high"), StringValue("critical"),
               NumberValue(1)}

FullPayloads == {UserActionPayload, IntegrationPayload, TransactionPayload(NumberValue(5000))}

Payloads ==
    {MonitoringPayload(s) : s \in Severities}
      \cup {TransactionPayload(a) : a \in Amounts}
      \cup FullPayloads
      \cup {Without(m, k) : <<m, k>> \in {mk \in FullPayloads \X
                {"userId", "action", "resource", "transactionId", "amount",
                 "currency", "source", "target", "operation"} : mk[2] \in DOMAIN mk[1]}}
      \cup {Without(Without(TransactionPayload(NumberValue(5000)), "amount"), "currency")}
      \cup {EmptyPayload}

EventTypes == {EventTypeMonitoring, EventTypeUserAction, EventTypeTransaction,
               EventTypeIntegration, "unknown_type"}

ClientIDs == {"client-001", "client-003"}

NewEvent(eventType, clientID, payload) ==
    [EventID |-> "e1", EventType |-> eventType, ClientID |-> clientID,
     Timestamp |-> 1, Payload |-> payload]

Events ==
    {NewEvent(t, c, p) : <<t, c, p>> \in EventTypes \X ClientIDs \X Payloads}
      \cup {NewEvent(EventTypeMonitoring, "", MonitoringPayload(StringValue("medium"))),
            [NewEvent(EventTypeMonitoring, "client-001",
                      MonitoringPayload(StringValue("medium"))) EXCEPT !.Timestamp = 0]}

\* what the validator may be given: any event in a document the schema
\* accepts, and one document each that is not JSON or that the schema rejects
Documents ==
    {Document(TRUE, TRUE, e) : e \in Events}
      \cup {Document(FALSE, FALSE, NewEvent("", "", EmptyPayload)),
            Document(TRUE, FALSE, NewEvent("", "", EmptyPayload))}

AllowedTypeSets ==
    {{EventTypeMonitoring, EventTypeUserAction, EventTypeTransaction, EventTypeIntegration},
     {EventTypeUserAction, EventTypeTransaction},
     {}}

GetItemResults ==
    {GetItemError, NoItem}
      \cup {Item(a, s) : <<a, s>> \in {"absent", "true", "false"} \X AllowedTypeSets}

\* ------------------------------------------------------------ bodies as events
\* what the bytes of a message body are to the validator
BodyDocument(b) ==
    IF b = GoodBody
    THEN Document(TRUE, TRUE, NewEvent(EventTypeMonitoring, "client-001",
                                       MonitoringPayload(StringValue("medium"))))
    ELSE IF b = TriageBody
    THEN Document(TRUE, TRUE, NewEvent(EventTypeTransaction, "client-001",
                      Without(TransactionPayload(NumberValue(5000)), "currency")))
    ELSE IF b = DeniedBody
    THEN Document(TRUE, TRUE, NewEvent(EventTypeMonitoring, "client-003",
                                       MonitoringPayload(StringValue("medium"))))
    ELSE Document(FALSE, FALSE, NewEvent("", "", EmptyPayload))

\* json.Unmarshal([]byte(body), &eventData) succeeds
IsJSON(b) == BodyDocument(b).json

\* The events-clients table (the configurations of event_processor_test.go
\* 796-840): client-001 is active with every type allowed, client-003 is
\* inactive, no other client has an item.
ClientTable(clientID) ==
    IF clientID = "client-001"
    THEN Item("true", {EventTypeMonitoring, EventTypeUserAction,
                       EventTypeTransaction, EventTypeIntegration})
    ELSE IF clientID = "client-003"
    THEN Item("false", {EventTypeMonitoring, EventTypeUserAction,
                        EventTypeTransaction, EventTypeIntegration})
    ELSE NoItem

\* what GetItem may return for a client: its item, or an error of the backend
GetItemOutcomes(clientID) == {ClientTable(clientID), GetItemError}

VARIABLES
    impl,       \* the lineage of the consumer that runs
    msgs,       \* main queue: message id -> message (deleted ones are kept)
    dlq,        \* dead letter queue: the messages sent to it, in order
    processed,  \* ids of the messages on which ProcessEvent returned nil
    workers,    \* goroutines running processMessage
    procCount,  \* root message id -> ProcessEvent invocations on it and its copies
    faults,     \* backend calls that have failed so far
    store,      \* record store: event id -> the item the last PutItem wrote
    proc,       \* a call of a function of the processor, and its result
    isRunning,  \* SQSConsumer.isRunning
    stopChan,   \* SQSConsumer.stopChan: "open" or "closed"
    loops,      \* consumeMessages goroutines that have not returned
    polls,      \* pollMessages calls the receive loops have made
    receiving,  \* receive loops that are inside a pollMessages call
    failed,     \* receive loops at the select whose last ReceiveMessage failed
    callers,    \* the goroutines that call Start and Stop
    panicked,   \* a goroutine has panicked: the process is gone
    pool        \* the dispatcher of pollMessages and the goroutines it started

consumerVars == <<impl, msgs, dlq, processed, workers, procCount, faults, store>>

procVars == <<proc>>

lifeVars == <<isRunning, stopChan, loops, polls, receiving, failed, callers, panicked>>

poolVars == <<pool>>

vars == <<consumerVars, procVars, lifeVars, poolVars>>

Workers == 1..MaxWorkers

IdleWorker == [pc |-> "idle", msg |-> 0, retryCount |-> 0, then |-> "return",
               reason |-> "", calls |-> <<>>]

\* a message the producer sent: no delay, its own root
NewMsg(b, a, id) ==
    [body |-> b, RetryCount |-> a, LastError |-> FALSE, delay |-> 0,
     parent |-> 0, root |-> id, state |-> "visible"]

Free(w) == workers[w].pc \in {"idle", "done"}

\* ------------------------------------------------------------ getRetryCount
\* sqs_consumer.go getRetryCount: 0 unless the attribute exists, has a value
\* and strconv.Atoi accepts it
getRetryCountV2(m) ==
    IF ~m.RetryCount.present THEN 0
    ELSE IF Atoi(m.RetryCount.str).ok THEN Atoi(m.RetryCount.str).val
    ELSE 0

\* part_002 getRetryCount: 0 unless the attribute exists with a non-empty
\* value, then what Sscanf("%d") reads
getRetryCountV1(m) ==
    IF ~m.RetryCount.present THEN 0
    ELSE IF m.RetryCount.str # <<>> THEN SscanfInt(m.RetryCount.str)
    ELSE 0

getRetryCount(m) == IF impl = "v2" THEN getRetryCountV2(m) ELSE getRetryCountV1(m)

\* ------------------------------------------------------------ backoff
Min(a, b) == IF a < b THEN a ELSE b

\* part_002 calculateDelay: 1<<retryCount seconds, at most 300 (retryCount is
\* at least 1 at every call: it is a getRetryCount result, here >= 0, plus 1)
calculateDelay(retryCount) == Min(2 ^ retryCount, maxDelaySeconds)

\* sqs_consumer.go requeueMessage: DelaySeconds: int32(newRetryCount * 5)
linearDelay(newRetryCount) == newRetryCount * linearDelayFactor

requeueDelay(newRetryCount) ==
    IF impl = "v2" THEN linearDelay(newRetryCount) ELSE calculateDelay(newRetryCount)

\* ------------------------------------------------------------ states at rest
\* the record store before any write
EmptyStore == [k \in {} |-> NoError]

\* no function of the processor is being called on its own
NoCall == [in |-> [fn |-> ""], done |-> FALSE, out |-> NoError]

\* pollMessages has not been called
NoPool == [size |-> 0, next |-> 0, batch |-> {}, running |-> {}, started |-> <<>>]

Callers == 1..MaxCallers

IdleCaller == [pc |-> "idle", op |-> "", ret |-> NoError, calls |-> 0]

\* sqs_consumer.go 47-57 NewSQSConsumer: stopChan made, isRunning false, no
\* goroutine started
InitLife ==
    /\ isRunning = FALSE
    /\ stopChan = "open"
    /\ loops = 0
    /\ polls = 0
    /\ receiving = 0
    /\ failed = 0
    /\ callers = [c \in Callers |-> IdleCaller]
    /\ panicked = FALSE

\* ------------------------------------------------------------ initial state
\* The life of one logical message: the producer has put one message on the
\* main queue, with any body and any RetryCount attribute; nothing has been
\* received yet.
InitWith(v) ==
    /\ impl = v
    /\ \E inp \in InitInputs : msgs = <<NewMsg(inp[1], inp[2], 1)>>
    /\ dlq = <<>>
    /\ processed = {}
    /\ workers = [w \in Workers |-> IdleWorker]
    /\ procCount = <<0>>
    /\ faults = 0
    /\ store = EmptyStore
    /\ proc = NoCall
    /\ InitLife
    /\ pool = NoPool

Init == \E v \in Variants : InitWith(v)

InitV2 == InitWith("v2")

InitV1 == InitWith("v1")

\* ------------------------------------------------------------ receiver
Visible == {i \in DOMAIN msgs : msgs[i].state = "visible"}

FreeWorkers == {w \in Workers : Free(w)}

Rank(x, S) == Cardinality({y \in S : y <= x})

Held(i) == \E w \in Workers : ~Free(w) /\ workers[w].msg = i

\* the batches ReceiveMessage can return: visible messages, at most batchSize
\* of them, one goroutine each
Batches ==
    {S \in SUBSET Visible :
        S # {} /\ Cardinality(S) <= Min(batchSize, Cardinality(FreeWorkers))}

\* sqs_consumer.go 129-131, part_002 96-113: the backend hides the messages of
\* the batch and one goroutine per message runs processMessage
Dispatch(S) ==
    /\ msgs' = [i \in DOMAIN msgs |->
                  IF i \in S THEN [msgs[i] EXCEPT !.state = "inflight"]
                  ELSE msgs[i]]
    /\ workers' = [w \in Workers |->
          IF Free(w) /\ Rank(w, FreeWorkers) <= Cardinality(S)
          THEN [IdleWorker EXCEPT
                  !.pc = "entry",
                  !.msg = CHOOSE i \in S : Rank(i, S) = Rank(w, FreeWorkers)]
          ELSE workers[w]]

\* pollMessages: ReceiveMessage returns a batch of visible messages, which the
\* backend hides; one goroutine per message runs processMessage. In v1 the
\* previous poll has waited for its workers (wg.Wait).
pollMessages ==
    /\ impl = "v1" => \A w \in Workers : Free(w)
    /\ \E S \in Batches : Dispatch(S)
    /\ UNCHANGED <<impl, dlq, processed, procCount, faults, store, procVars, lifeVars, poolVars>>

\* The backend's visibility timeout of a received message expires: it can be
\* received again. The worker that owns the message has finished (spec 3,
\* Ownership: the backend hides a message while its worker runs).
VisibilityTimeout(i) ==
    /\ msgs[i].state = "inflight"
    /\ ~Held(i)
    /\ msgs' = [msgs EXCEPT ![i].state = "visible"]
    /\ UNCHANGED <<impl, dlq, processed, workers, procCount, faults, store, procVars, lifeVars, poolVars>>

\* ------------------------------------------------------------ processMessage
Call(op, queue, ok) == [op |-> op, queue |-> queue, ok |-> ok]

Logged(w, c) == Append(workers[w].calls, c)

\* entryBranchV2 with the threshold compared by > (a message at maxRetries is
\* processed)
entryBranchV2_gt(retryCount) ==
    IF retryCount > maxRetries
    THEN [pc |-> "sendToDLQ", then |-> "deleteMessage", reason |-> "Max retries exceeded"]
    ELSE [pc |-> "process", then |-> "return", reason |-> ""]

\* entryBranchV2 without the call of sendToDLQ
entryBranchV2_nodlq(retryCount) ==
    IF retryCount >= maxRetries
    THEN [pc |-> "deleteMessage", then |-> "return", reason |-> ""]
    ELSE [pc |-> "process", then |-> "return", reason |-> ""]

\* sqs_consumer.go 146-153: a message at or over maxRetries goes to the DLQ
\* and is deleted, without being processed
entryBranchV2(retryCount) ==
    IF retryCount >= maxRetries
    THEN [pc |-> "sendToDLQ", then |-> "deleteMessage", reason |-> "Max retries exceeded"]
    ELSE [pc |-> "process", then |-> "return", reason |-> ""]

processMessageEntryV2(w) ==
    /\ impl = "v2"
    /\ workers[w].pc = "entry"
    /\ LET rc == getRetryCount(msgs[workers[w].msg])
           br == entryBranchV2(rc)
       IN  workers' = [workers EXCEPT ![w].retryCount = rc, ![w].pc = br.pc,
                                      ![w].then = br.then, ![w].reason = br.reason]
    /\ UNCHANGED <<impl, msgs, dlq, processed, procCount, faults, store, procVars, lifeVars, poolVars>>

\* failureBranchV2 with the original deleted after the requeue
failureBranchV2_ack(retryCount) ==
    IF retryCount < maxRetries
    THEN [pc |-> "requeueMessage", then |-> "deleteMessage", reason |-> ""]
    ELSE [pc |-> "sendToDLQ", then |-> "return", reason |-> "Processing failed"]

\* sqs_consumer.go 156-165: after a failed ProcessEvent, requeue under
\* maxRetries, else DLQ; either way return without deleting
failureBranchV2(retryCount) ==
    IF retryCount < maxRetries
    THEN [pc |-> "requeueMessage", then |-> "return", reason |-> ""]
    ELSE [pc |-> "sendToDLQ", then |-> "return", reason |-> "Processing failed"]

\* failureBranchV1 without the deleteMessage after sendToDLQ
failureBranchV1_noack(retryCount) ==
    IF retryCount >= maxRetries
    THEN [pc |-> "sendToDLQ", then |-> "return", reason |-> "Max retries exceeded"]
    ELSE [pc |-> "requeueMessage", then |-> "deleteMessage", reason |-> ""]

\* part_002 144-153: after a failed ProcessEvent, DLQ at or over the maximum,
\* else requeue; either way delete the original afterwards
failureBranchV1(retryCount) ==
    IF retryCount >= maxRetries
    THEN [pc |-> "sendToDLQ", then |-> "deleteMessage", reason |-> "Max retries exceeded"]
    ELSE [pc |-> "requeueMessage", then |-> "deleteMessage", reason |-> ""]

\* ProcessEvent on the message, with every outcome of the client lookup and of
\* the write to the record store
ProcessEventResults(body) ==
    {ProcessEvent(BodyDocument(body), getItem, putOK) :
        <<getItem, putOK>> \in
            GetItemOutcomes(BodyDocument(body).event.ClientID) \X BOOLEAN}

\* Stored with a PutItem that does not replace an item that exists
Stored_ifAbsent(res) ==
    IF res.stored /\ res.saves[1].EventID \notin DOMAIN store
    THEN Put(store, res.saves[1].EventID, SavedItem(res.saves[1]))
    ELSE store

\* the record store after the call: PutItem replaces the item of the event id
Stored(res) ==
    IF res.stored
    THEN Put(store, res.saves[1].EventID, SavedItem(res.saves[1]))
    ELSE store

\* the call of ProcessEvent on record: its error, what it passed to SaveEvent
\* and what the permission check returned
ProcessCall(res) ==
    [op |-> "ProcessEvent", queue |-> "-", ok |-> res.err = NoError,
     err |-> res.err, saves |-> res.saves, stored |-> res.stored,
     permErr |-> IF res.validated THEN res.triage.permErr ELSE NoError]

\* The invocation is counted against the logical message.
CanProcess(w) ==
    /\ workers[w].pc = "process"
    /\ procCount[msgs[workers[w].msg].root] < MaxProcess

Counted(w) ==
    [procCount EXCEPT ![msgs[workers[w].msg].root] = @ + 1]

\* sqs_consumer.go 155-171
processMessageProcessV2(w) ==
    /\ impl = "v2"
    /\ CanProcess(w)
    /\ \E res \in ProcessEventResults(msgs[workers[w].msg].body) :
          /\ store' = Stored(res)
          /\ IF res.err = NoError
             THEN /\ processed' = processed \cup {workers[w].msg}
                  /\ workers' = [workers EXCEPT
                        ![w].pc = "deleteMessage", ![w].then = "return",
                        ![w].calls = Logged(w, ProcessCall(res))]
             ELSE /\ processed' = processed
                  /\ LET br == failureBranchV2(workers[w].retryCount)
                     IN  workers' = [workers EXCEPT
                           ![w].pc = br.pc, ![w].then = br.then, ![w].reason = br.reason,
                           ![w].calls = Logged(w, ProcessCall(res))]
    /\ procCount' = Counted(w)
    /\ UNCHANGED <<impl, msgs, dlq, faults, procVars, lifeVars, poolVars>>

\* part_002 131-138: a body that json.Unmarshal rejects goes to the DLQ and is
\* deleted
entryBranchV1(body) ==
    IF ~IsJSON(body)
    THEN [pc |-> "sendToDLQ", then |-> "deleteMessage", reason |-> "JSON unmarshal error"]
    ELSE [pc |-> "process", then |-> "return", reason |-> ""]

processMessageEntryV1(w) ==
    /\ impl = "v1"
    /\ workers[w].pc = "entry"
    /\ LET br == entryBranchV1(msgs[workers[w].msg].body)
       IN  workers' = [workers EXCEPT ![w].pc = br.pc, ![w].then = br.then,
                                      ![w].reason = br.reason]
    /\ UNCHANGED <<impl, msgs, dlq, processed, procCount, faults, store, procVars, lifeVars, poolVars>>

\* part_002 140-160
processMessageProcessV1(w) ==
    /\ impl = "v1"
    /\ CanProcess(w)
    /\ \E res \in ProcessEventResults(msgs[workers[w].msg].body) :
          /\ store' = Stored(res)
          /\ IF res.err = NoError
             THEN /\ processed' = processed \cup {workers[w].msg}
                  /\ workers' = [workers EXCEPT
                        ![w].pc = "deleteMessage", ![w].then = "return",
                        ![w].calls = Logged(w, ProcessCall(res))]
             ELSE /\ processed' = processed
                  /\ LET rc == getRetryCount(msgs[workers[w].msg])
                         br == failureBranchV1(rc)
                     IN  workers' = [workers EXCEPT
                           ![w].retryCount = rc,
                           ![w].pc = br.pc, ![w].then = br.then, ![w].reason = br.reason,
                           ![w].calls = Logged(w, ProcessCall(res))]
    /\ procCount' = Counted(w)
    /\ UNCHANGED <<impl, msgs, dlq, faults, procVars, lifeVars, poolVars>>

\* processMessage has returned: the goroutine ends, its locals are gone; the
\* calls it made to the processor and the backend stay on record
Finished(w, c) ==
    [IdleWorker EXCEPT !.pc = "done", !.msg = workers[w].msg, !.calls = Logged(w, c)]

\* a helper called by processMessage returns: to the deleteMessage that
\* follows the call, or to a return statement
Returned(w, c) ==
    IF workers[w].then = "deleteMessage"
    THEN [workers[w] EXCEPT !.pc = "deleteMessage", !.then = "return",
                            !.calls = Logged(w, c)]
    ELSE Finished(w, c)

\* ------------------------------------------------------------ backend faults
\* the outcomes of a SendMessage or DeleteMessage: TRUE is success; a failure
\* is possible while the fault budget lasts
Outcomes == IF faults < MaxFaults THEN {TRUE, FALSE} ELSE {TRUE}

Faulted(ok) == IF ok THEN faults ELSE faults + 1

\* ------------------------------------------------------------ requeueMessage
\* Requeued with the RetryCount of the incoming message sent again unchanged
Requeued_same(m, id, newRetryCount) ==
    [body |-> m.body,
     RetryCount |-> StrAttr(Itoa(newRetryCount - 1)),
     LastError |-> IF impl = "v2" THEN m.LastError ELSE TRUE,
     delay |-> requeueDelay(newRetryCount),
     parent |-> id, root |-> m.root, state |-> "visible"]

\* The message SendMessage puts on the main queue. v2 keeps the attributes of
\* the incoming message and overwrites RetryCount; v1 sends RetryCount and
\* LastError only. The body is the incoming body.
Requeued(m, id, newRetryCount) ==
    [body |-> m.body,
     RetryCount |-> StrAttr(Itoa(newRetryCount)),
     LastError |-> IF impl = "v2" THEN m.LastError ELSE TRUE,
     delay |-> requeueDelay(newRetryCount),
     parent |-> id, root |-> m.root, state |-> "visible"]

\* requeueMessage(message, retryCount+1): SendMessage to the main queue, whose
\* error is logged and not returned
requeueMessage(w) ==
    /\ workers[w].pc = "requeueMessage"
    /\ Len(msgs) < MaxMsgs
    /\ \E ok \in Outcomes :
          /\ faults' = Faulted(ok)
          /\ msgs' = IF ok
                     THEN Append(msgs, Requeued(msgs[workers[w].msg], workers[w].msg,
                                                workers[w].retryCount + 1))
                     ELSE msgs
          /\ workers' = [workers EXCEPT
                ![w] = Returned(w, Call("SendMessage", "main", ok))]
    /\ UNCHANGED <<impl, dlq, processed, procCount, store, procVars, lifeVars, poolVars>>

\* ------------------------------------------------------------ sendToDLQ
\* The message SendMessage puts on the DLQ. v2 sends the body as received with
\* OriginalMessageId and FailureReason; v1 sends a JSON object that wraps the
\* body, with ErrorReason.
DLQMessage(m, id, reason) ==
    IF impl = "v2"
    THEN [body |-> m.body, from |-> id, OriginalMessageId |-> id,
          reason |-> reason]
    ELSE [body |-> <<"{originalBody:">> \o m.body \o <<",errorReason,timestamp,messageId}">>,
          from |-> id, OriginalMessageId |-> 0, reason |-> reason]

\* sendToDLQ(message, reason): SendMessage to the DLQ, whose error is logged
\* and not returned
sendToDLQ(w) ==
    /\ workers[w].pc = "sendToDLQ"
    /\ Len(dlq) < MaxDLQ
    /\ \E ok \in Outcomes :
          /\ faults' = Faulted(ok)
          /\ dlq' = IF ok
                    THEN Append(dlq, DLQMessage(msgs[workers[w].msg], workers[w].msg,
                                                workers[w].reason))
                    ELSE dlq
          /\ workers' = [workers EXCEPT
                ![w] = Returned(w, Call("SendMessage", "dlq", ok))]
    /\ UNCHANGED <<impl, msgs, processed, procCount, store, procVars, lifeVars, poolVars>>

\* ------------------------------------------------------------ deleteMessage
\* deleteMessage: DeleteMessage on the main queue with the receipt handle,
\* whose error is logged and not returned; processMessage returns after it
deleteMessage(w) ==
    /\ workers[w].pc = "deleteMessage"
    /\ \E ok \in Outcomes :
          /\ faults' = Faulted(ok)
          /\ msgs' = IF ok
                     THEN [msgs EXCEPT ![workers[w].msg].state = "deleted"]
                     ELSE msgs
          /\ workers' = [workers EXCEPT
                ![w] = Finished(w, Call("DeleteMessage", "main", ok))]
    /\ UNCHANGED <<impl, dlq, processed, procCount, store, procVars, lifeVars, poolVars>>

\* ------------------------------------------------------------ specifications
Backend ==
    \/ pollMessages
    \/ \E i \in DOMAIN msgs : VisibilityTimeout(i)

Helpers ==
    \/ \E w \in Workers : requeueMessage(w)
    \/ \E w \in Workers : sendToDLQ(w)
    \/ \E w \in Workers : deleteMessage(w)

ProcessV2 ==
    \/ \E w \in Workers : processMessageEntryV2(w)
    \/ \E w \in Workers : processMessageProcessV2(w)

ProcessV1 ==
    \/ \E w \in Workers : processMessageEntryV1(w)
    \/ \E w \in Workers : processMessageProcessV1(w)

NextV2 == Backend \/ Helpers \/ ProcessV2

NextV1 == Backend \/ Helpers \/ ProcessV1

Next == Backend \/ Helpers \/ ProcessV2 \/ ProcessV1

\* either lineage
Spec == Init /\ [][Next]_vars

\* src/internal/consumer/sqs_consumer.go
SpecV2 == InitV2 /\ [][NextV2]_vars

\* src/unnamed/part_002
SpecV1 == InitV1 /\ [][NextV1]_vars

\* ------------------------------------------------------------ the processor alone
\* A function of the processor is called once, on any of its inputs, as the
\* tests of the processor do; the consumer is at rest.
ProcessEventInputs ==
    {[fn |-> "ProcessEvent", doc |-> in[1], getItem |-> in[2], putOK |-> in[3]] :
        in \in Documents \X GetItemResults \X BOOLEAN}

triageEventInputs ==
    {[fn |-> "triageEvent", event |-> in[1], getItem |-> in[2]] :
        in \in Events \X GetItemResults}

validateClientPermissionsInputs ==
    {[fn |-> "validateClientPermissions", clientID |-> in[1], eventType |-> in[2],
      getItem |-> in[3]] :
        in \in ClientIDs \X EventTypes \X GetItemResults}

InitProc ==
    /\ impl = "v2"
    /\ msgs = <<>>
    /\ dlq = <<>>
    /\ processed = {}
    /\ workers = [w \in Workers |-> IdleWorker]
    /\ procCount = <<>>
    /\ faults = 0
    /\ store = EmptyStore
    /\ \E in \in ProcessEventInputs \cup triageEventInputs
                    \cup validateClientPermissionsInputs :
          proc = [in |-> in, done |-> FALSE, out |-> NoError]
    /\ InitLife
    /\ pool = NoPool

ProcessEventCall ==
    /\ proc.in.fn = "ProcessEvent" /\ ~proc.done
    /\ LET res == ProcessEvent(proc.in.doc, proc.in.getItem, proc.in.putOK)
       IN  /\ proc' = [proc EXCEPT !.done = TRUE, !.out = res]
           /\ store' = Stored(res)
    /\ UNCHANGED <<impl, msgs, dlq, processed, workers, procCount, faults, lifeVars, poolVars>>

triageEventCall ==
    /\ proc.in.fn = "triageEvent" /\ ~proc.done
    /\ proc' = [proc EXCEPT !.done = TRUE,
                            !.out = triageEvent(proc.in.event, proc.in.getItem)]
    /\ UNCHANGED <<consumerVars, lifeVars, poolVars>>

validateClientPermissionsCall ==
    /\ proc.in.fn = "validateClientPermissions" /\ ~proc.done
    /\ proc' = [proc EXCEPT !.done = TRUE,
                  !.out = validateClientPermissions(proc.in.clientID, proc.in.eventType,
                              GetClientConfig(proc.in.clientID, proc.in.getItem))]
    /\ UNCHANGED <<consumerVars, lifeVars, poolVars>>

NextProc == ProcessEventCall \/ triageEventCall \/ validateClientPermissionsCall

\* src/internal/processor (event_processor_test.go 842-1109)
SpecProc == InitProc /\ [][NextProc]_vars

\* ------------------------------------------------------------ Start and Stop
FreeCaller(c) ==
    /\ callers[c].pc \in {"idle", "returned"}
    /\ callers[c].calls < MaxCalls

CallerReturned(c, op, ret) ==
    [pc |-> "returned", op |-> op, ret |-> ret, calls |-> callers[c].calls + 1]

CallerAt(c, op, pc) ==
    [pc |-> pc, op |-> op, ret |-> NoError, calls |-> callers[c].calls + 1]

\* startBranch that does not look at isRunning
startBranch_nocheck(c, running) == CallerAt(c, "Start", "Start:set")

\* sqs_consumer.go 62-64
startBranch(c, running) ==
    IF running
    THEN CallerReturned(c, "Start", <<"consumer is already running">>)
    ELSE CallerAt(c, "Start", "Start:set")

\* Start is called and tests isRunning
StartCheck(c) ==
    /\ ~panicked
    /\ FreeCaller(c)
    /\ callers' = [callers EXCEPT ![c] = startBranch(c, isRunning)]
    /\ UNCHANGED <<consumerVars, procVars, poolVars, isRunning, stopChan, loops, polls, receiving, failed, panicked>>

\* sqs_consumer.go 66
StartSet(c) ==
    /\ ~panicked
    /\ callers[c].pc = "Start:set"
    /\ isRunning' = TRUE
    /\ callers' = [callers EXCEPT ![c].pc = "Start:go"]
    /\ UNCHANGED <<consumerVars, procVars, poolVars, stopChan, loops, polls, receiving, failed, panicked>>

\* sqs_consumer.go 69-71: go c.consumeMessages(ctx); return nil
StartGo(c) ==
    /\ ~panicked
    /\ callers[c].pc = "Start:go"
    /\ loops' = loops + 1
    /\ callers' = [callers EXCEPT ![c].pc = "returned", ![c].ret = NoError]
    /\ UNCHANGED <<consumerVars, procVars, poolVars, isRunning, stopChan, polls, receiving, failed, panicked>>

\* sqs_consumer.go 76-78
stopBranch(c, running) ==
    IF ~running
    THEN CallerReturned(c, "Stop", NoError)
    ELSE CallerAt(c, "Stop", "Stop:set")

\* Stop is called and tests isRunning
StopCheck(c) ==
    /\ ~panicked
    /\ FreeCaller(c)
    /\ callers' = [callers EXCEPT ![c] = stopBranch(c, isRunning)]
    /\ UNCHANGED <<consumerVars, procVars, poolVars, isRunning, stopChan, loops, polls, receiving, failed, panicked>>

\* sqs_consumer.go 81
StopSet(c) ==
    /\ ~panicked
    /\ callers[c].pc = "Stop:set"
    /\ isRunning' = FALSE
    /\ callers' = [callers EXCEPT ![c].pc = "Stop:close"]
    /\ UNCHANGED <<consumerVars, procVars, poolVars, stopChan, loops, polls, receiving, failed, panicked>>

\* sqs_consumer.go 82: close(c.stopChan); closing a closed channel panics
StopClose(c) ==
    /\ ~panicked
    /\ callers[c].pc = "Stop:close"
    /\ IF stopChan = "closed"
       THEN /\ panicked' = TRUE
            /\ callers' = [callers EXCEPT ![c].pc = "panicked"]
            /\ UNCHANGED stopChan
       ELSE /\ stopChan' = "closed"
            /\ callers' = [callers EXCEPT ![c].pc = "Stop:wait"]
            /\ UNCHANGED panicked
    /\ UNCHANGED <<consumerVars, procVars, poolVars, isRunning, loops, polls, receiving, failed>>

\* sqs_consumer.go 85-90: the select returns when the context is done or when
\* the five seconds have passed, with an error either way
StopWaitResults == {<<"context canceled">>, <<"timeout waiting for consumer to stop">>}

StopWait(c) ==
    /\ ~panicked
    /\ callers[c].pc = "Stop:wait"
    /\ \E ret \in StopWaitResults :
          callers' = [callers EXCEPT ![c].pc = "returned", ![c].ret = ret]
    /\ UNCHANGED <<consumerVars, procVars, poolVars, isRunning, stopChan, loops, polls, receiving, failed, panicked>>

\* the loops at the select that can take the next step: one whose last
\* ReceiveMessage failed (1) or one of the others (0)
AtSelect ==
    {f \in {0, 1} : IF f = 1 THEN failed > 0 ELSE loops - receiving > failed}

\* sqs_consumer.go 94-104 consumeMessages, the default case of the select:
\* stopChan is open, a loop that is at the select calls pollMessages, which
\* issues ReceiveMessage (a long poll of WaitTimeSeconds: 20)
consumeMessagesPoll ==
    /\ ~panicked
    /\ stopChan = "open"
    /\ polls < MaxPolls
    /\ \E f \in AtSelect : failed' = failed - f
    /\ polls' = polls + 1
    /\ receiving' = receiving + 1
    /\ UNCHANGED <<consumerVars, procVars, poolVars, isRunning, stopChan, loops, callers, panicked>>

\* sqs_consumer.go 123-125: ReceiveMessage returned no message; pollMessages
\* returns and the loop is back at the select
pollMessagesEmpty ==
    /\ ~panicked
    /\ receiving > 0
    /\ receiving' = receiving - 1
    /\ UNCHANGED <<consumerVars, procVars, poolVars, isRunning, stopChan, loops, polls, failed, callers, panicked>>

\* sqs_consumer.go 117-121: ReceiveMessage failed; the error is logged,
\* pollMessages returns and the loop is back at the select
pollMessagesFailed ==
    /\ ~panicked
    /\ receiving > 0
    /\ receiving' = receiving - 1
    /\ failed' = failed + 1
    /\ UNCHANGED <<consumerVars, procVars, poolVars, isRunning, stopChan, loops, polls, callers, panicked>>

\* sqs_consumer.go 97-99: stopChan is closed, a loop that is at the select
\* returns
consumeMessagesReturn ==
    /\ ~panicked
    /\ stopChan = "closed"
    /\ \E f \in AtSelect : failed' = failed - f
    /\ loops' = loops - 1
    /\ UNCHANGED <<consumerVars, procVars, poolVars, isRunning, stopChan, polls, receiving, callers, panicked>>

\* no call of Start or Stop is in progress
Quiet == \A c \in Callers : callers[c].pc \in {"idle", "returned"}

InitLifeOnly ==
    /\ impl = "v2"
    /\ msgs = <<>>
    /\ dlq = <<>>
    /\ processed = {}
    /\ workers = [w \in Workers |-> IdleWorker]
    /\ procCount = <<>>
    /\ faults = 0
    /\ store = EmptyStore
    /\ proc = NoCall
    /\ InitLife
    /\ pool = NoPool

LifeSteps ==
    \/ \E c \in Callers : StartSet(c)
    \/ \E c \in Callers : StartGo(c)
    \/ \E c \in Callers : StopSet(c)
    \/ \E c \in Callers : StopClose(c)
    \/ \E c \in Callers : StopWait(c)
    \/ consumeMessagesPoll
    \/ pollMessagesEmpty
    \/ pollMessagesFailed
    \/ consumeMessagesReturn

\* Start and Stop called one after the other, as TestStart and TestStop do
NextLife ==
    \/ Quiet /\ \E c \in Callers : StartCheck(c)
    \/ Quiet /\ \E c \in Callers : StopCheck(c)
    \/ LifeSteps

\* the life cycle of the consumer of sqs_consumer.go, calls in sequence
SpecLife == InitLifeOnly /\ [][NextLife]_vars

\* Start and Stop called from several goroutines at once: neither takes a lock
\* (sqs_consumer.go 61-91), so the steps of the calls interleave freely
NextRace ==
    \/ \E c \in Callers : StartCheck(c)
    \/ \E c \in Callers : StopCheck(c)
    \/ LifeSteps

\* the life cycle of the consumer of sqs_consumer.go, calls in parallel
SpecRace == InitLifeOnly /\ [][NextRace]_vars

\* ------------------------------------------------------------ the consumer under Start and Stop
\* sqs_consumer.go 117-131: the ReceiveMessage a receive loop has issued
\* returns a batch, which pollMessages dispatches. Nothing on this path looks
\* at stopChan, and Stop does not cancel the context ReceiveMessage runs under
\* (main.go 80 passes context.Background() to Start).
pollMessagesDispatch ==
    /\ ~panicked
    /\ receiving > 0
    /\ \E S \in Batches : Dispatch(S)
    /\ receiving' = receiving - 1
    /\ UNCHANGED <<impl, dlq, processed, procCount, faults, store, procVars, poolVars,
                   isRunning, stopChan, loops, polls, failed, callers, panicked>>

\* the goroutines of processMessage, which run while the process lives
WorkerSteps ==
    /\ ~panicked
    /\ \/ \E i \in DOMAIN msgs : VisibilityTimeout(i)
       \/ Helpers
       \/ ProcessV2

\* main.go 78-97: one goroutine calls Start and, at the signal, Stop
Main == 1

\* a valid event on its third delivery: one more failure re-enqueues it, the
\* delivery after that goes to the DLQ
InitRun ==
    /\ impl = "v2"
    /\ msgs = <<NewMsg(GoodBody, StrAttr(<<"2">>), 1)>>
    /\ dlq = <<>>
    /\ processed = {}
    /\ workers = [w \in Workers |-> IdleWorker]
    /\ procCount = <<0>>
    /\ faults = 0
    /\ store = EmptyStore
    /\ proc = NoCall
    /\ InitLife
    /\ pool = NoPool

NextRun ==
    \/ Quiet /\ StartCheck(Main)
    \/ Quiet /\ StopCheck(Main)
    \/ LifeSteps
    \/ pollMessagesDispatch
    \/ WorkerSteps

\* sqs_consumer.go as main.go runs it: Start, the receive loop and its
\* workers, Stop
SpecRun == InitRun /\ [][NextRun]_vars

\* ------------------------------------------------------------ the dispatcher
\* The deliveries the backend hands out are numbered 1, 2, ... as they are
\* received; each has its own receipt handle. pool.batch holds the messages of
\* result.Messages the range loop has not reached, pool.running the goroutines
\* that are inside processMessage (for: the message of the iteration that
\* started the goroutine, msg: the message processMessage reads), and
\* pool.started counts the goroutines started for each delivery.

\* the worker pool sizes a configuration can set: below the batch size, and
\* the default of config.Load
PoolSizes == {2, workerPoolSize}

InitPool ==
    /\ impl \in Variants
    /\ msgs = <<>>
    /\ dlq = <<>>
    /\ processed = {}
    /\ workers = [w \in Workers |-> IdleWorker]
    /\ procCount = <<>>
    /\ faults = 0
    /\ store = EmptyStore
    /\ proc = NoCall
    /\ InitLife
    /\ \E n \in PoolSizes :
          pool = [NoPool EXCEPT !.size = IF impl = "v1" THEN n ELSE 0]

\* sqs_consumer.go 117-127, part_002 84-93: ReceiveMessage returns a batch of
\* one to batchSize messages. The loop of v2 polls again as soon as the
\* goroutines of the batch are started; pollMessages of v1 has returned from
\* wg.Wait: no goroutine of the previous batch is left.
ReceiveBatch ==
    /\ pool.batch = {}
    /\ impl = "v1" => pool.running = {}
    /\ \E k \in 1..batchSize :
          /\ pool.next + k <= MaxDeliveries
          /\ pool' = [pool EXCEPT
                !.next = @ + k,
                !.batch = (pool.next + 1)..(pool.next + k),
                !.started = @ \o [i \in 1..k |-> 0]]
    /\ UNCHANGED <<consumerVars, procVars, lifeVars>>

\* the iteration the range loop is at
Current == CHOOSE i \in pool.batch : \A j \in pool.batch : i <= j

\* as loopMessage, with one variable for the whole loop: a goroutine that
\* runs after the loop has moved on reads a later message of the batch
loopMessage_shared(i, batch) == CHOOSE j \in batch : \A k \in batch : k <= j

\* sqs_consumer.go 129-130 'go c.processMessage(ctx, &message)': the loop
\* variable is a new one in each iteration (Go 1.22 and later; the README
\* requires Go 1.23), so the goroutine reads the message of its iteration.
\* part_002 102-108 passes the message as the argument of the goroutine.
loopMessage(i, batch) == i

\* the worker pool has a free slot: part_002 100 'case c.workerPool <-
\* struct{}{}' can proceed. sqs_consumer.go has no pool: 'go' never blocks.
CanAcquire == impl = "v1" => Cardinality(pool.running) < pool.size

\* sqs_consumer.go 129-131, part_002 98-109: one iteration of the range loop
\* starts a goroutine on the message
DispatchOne ==
    /\ pool.batch # {}
    /\ CanAcquire
    /\ LET m == loopMessage(Current, pool.batch)
       IN  pool' = [pool EXCEPT
                !.batch = @ \ {Current},
                !.running = @ \cup {[for |-> Current, msg |-> m]},
                !.started = [@ EXCEPT ![m] = @ + 1]]
    /\ UNCHANGED <<consumerVars, procVars, lifeVars>>

\* processMessage returns; in v1 the deferred function releases the slot and
\* calls wg.Done (part_002 103-106)
WorkerReturns ==
    /\ \E r \in pool.running : pool' = [pool EXCEPT !.running = @ \ {r}]
    /\ UNCHANGED <<consumerVars, procVars, lifeVars>>

NextPool == ReceiveBatch \/ DispatchOne \/ WorkerReturns

\* pollMessages and the goroutines it starts, either lineage, while the
\* context is live
SpecPool == InitPool /\ [][NextPool]_vars

\* ------------------------------------------------------------ getRetryCount alone
\* the characters of the attribute values: digits, a sign, a letter, a space
AttrChars == {"0", "1", "3", "-", "a", " "}

AttrStrings == UNION {[1..k -> AttrChars] : k \in 0..MaxAttrLen}

\* the RetryCount attribute of the message in hand: absent (no map, or no
\* such key) or present with a string value
RetryAttrs == {NoAttr} \cup {StrAttr(str) : str \in AttrStrings}

\* getRetryCount is called once on a message, as TestGetRetryCount calls it
InitRetry ==
    /\ impl \in Variants
    /\ msgs = <<>>
    /\ dlq = <<>>
    /\ processed = {}
    /\ workers = [w \in Workers |-> IdleWorker]
    /\ procCount = <<>>
    /\ faults = 0
    /\ store = EmptyStore
    /\ \E a \in RetryAttrs :
          proc = [in |-> [fn |-> "getRetryCount",
                          message |-> NewMsg(GoodBody, a, 1)],
                  done |-> FALSE, out |-> NoError]
    /\ InitLife
    /\ pool = NoPool

getRetryCountCall ==
    /\ proc.in.fn = "getRetryCount"
    /\ ~proc.done
    /\ proc' = [proc EXCEPT !.done = TRUE, !.out = getRetryCount(proc.in.message)]
    /\ UNCHANGED <<consumerVars, lifeVars, poolVars>>

NextRetry == getRetryCountCall

\* getRetryCount of sqs_consumer.go and of part_002
SpecRetry == InitRetry /\ [][NextRetry]_vars

\* ------------------------------------------------------------ envelopes in time
\* A time.Time is a number of ticks; the clock never goes back. Unix() and
\* Format(time.RFC3339) keep the whole seconds.
TicksPerSecond == 2

Unix(t) == t \div TicksPerSecond

RFC3339(t) == StringValue(<<"RFC3339", Unix(t)>>)

\* the readings of the three calls of time.Now() that make an envelope, in
\* the order the code makes them: ProcessedAt and TTL in ToProcessedEvent
\* (event.go 65, 68), then the stamp of the type's step
Readings(now) ==
    {r \in (now..MaxTicks) \X (now..MaxTicks) \X (now..MaxTicks) :
        r[1] <= r[2] /\ r[2] <= r[3]}

\* The envelope triageEvent returns when its calls of time.Now() read r:
\* event.go 62-70 sets ProcessedAt from the first call and TTL from the
\* second, plus thirty days, in epoch seconds; the steps of user_action and
\* integration events write the third, formatted, into the payload
\* (event_processor_test.go 1008, 1063).
Stamped(pe, r) ==
    [EventID |-> pe.EventID, EventType |-> pe.EventType, ClientID |-> pe.ClientID,
     Payload |-> [k \in DOMAIN pe.Payload |->
                    IF pe.Payload[k] = TimeStamp THEN RFC3339(r[3]) ELSE pe.Payload[k]],
     Status |-> pe.Status, ErrorMsg |-> pe.ErrorMsg, RetryCount |-> pe.RetryCount,
     ProcessedAt |-> r[1], TTL |-> Unix(r[2]) + thirtyDays]

\* the item SaveEvent writes for the envelope (dynamodb_repository.go 72-83):
\* processed_at formatted, ttl as it is in the envelope
SavedTimes(pe) == [processed_at |-> RFC3339(pe.ProcessedAt).v[2], ttl |-> pe.TTL]

\* the events triage accepts, with the policy lookups of GetItemResults
TimedInputs ==
    {[fn |-> "triageEvent twice", event |-> in[1], getItem |-> in[2]] :
        in \in {x \in Events \X {NoItem, GetItemError} :
                    triageEvent(x[1], x[2]).hasEnvelope}}

\* the same event is processed, and after a while processed again (a
\* redelivery of the body: the event is parsed anew)
InitTimed ==
    /\ impl = "v2"
    /\ msgs = <<>>
    /\ dlq = <<>>
    /\ processed = {}
    /\ workers = [w \in Workers |-> IdleWorker]
    /\ procCount = <<>>
    /\ faults = 0
    /\ store = EmptyStore
    /\ \E in \in TimedInputs :
          proc = [in |-> in, done |-> FALSE, out |-> <<>>, now |-> 0]
    /\ InitLife
    /\ pool = NoPool

triageEventAt ==
    /\ proc.in.fn = "triageEvent twice"
    /\ ~proc.done
    /\ \E r \in Readings(proc.now) :
          proc' = [proc EXCEPT
                !.out = Append(@, Stamped(triageEvent(proc.in.event, proc.in.getItem).pe, r)),
                !.done = Len(proc.out) = 1,
                !.now = r[3]]
    /\ UNCHANGED <<consumerVars, lifeVars, poolVars>>

NextTimed == triageEventAt

\* triageEvent on one event, twice, as the clock runs
SpecTimed == InitTimed /\ [][NextTimed]_vars

\* ------------------------------------------------------------ properties
Done(w) == workers[w].pc = "done"

Calls(w) == workers[w].calls

\* the message worker w was started for
Msg(w) == msgs[workers[w].msg]

IsProcess(c) == c.op = "ProcessEvent"
IsRequeue(c) == c.op = "SendMessage" /\ c.queue = "main"
IsDLQSend(c) == c.op = "SendMessage" /\ c.queue = "dlq"
IsDelete(c) == c.op = "DeleteMessage"

\* the calls of a run, without their outcomes
Ops(w) == [i \in DOMAIN Calls(w) |-> <<Calls(w)[i].op, Calls(w)[i].queue>>]

ProcessFailed(w) == \E i \in DOMAIN Calls(w) : IsProcess(Calls(w)[i]) /\ ~Calls(w)[i].ok

InDLQ(i) == \E k \in DOMAIN dlq : dlq[k].from = i

Requeues(i) == {j \in DOMAIN msgs : msgs[j].parent = i}

\* C1: no message is removed from the main queue while no copy of its body
\* was persisted (ProcessEvent returned nil), put in the DLQ or re-enqueued.
C1_NoLoss ==
    \A i \in DOMAIN msgs :
        msgs[i].state = "deleted" =>
            \/ i \in processed
            \/ InDLQ(i)
            \/ Requeues(i) # {}

\* C2: a worker whose SendMessage to the DLQ failed issues no DeleteMessage
\* for the original.
C2_DLQFailureWithholdsAck ==
    \A w \in Workers :
        (\E i \in DOMAIN Calls(w) : IsDLQSend(Calls(w)[i]) /\ ~Calls(w)[i].ok)
            => ~\E j \in DOMAIN Calls(w) : IsDelete(Calls(w)[j])

\* C3: while no copy of a logical message is in the DLQ, ProcessEvent has been
\* invoked on it and its re-enqueued copies at most maxRetries + 1 times. The
\* statement is taken for the runs in which no backend call has failed, where
\* every redelivery is the consumer's own doing.
C3_RetryBound ==
    faults = 0 =>
        \A r \in DOMAIN procCount :
            (~\E k \in DOMAIN dlq : msgs[dlq[k].from].root = r)
                => procCount[r] <= maxRetries + 1

\* C4: a worker whose ProcessEvent failed on a message under maxRetries has,
\* when it finishes, re-enqueued the message and then issued the DeleteMessage
\* of the original; with both calls successful the original is off the queue.
C4_RequeueThenAck ==
    \A w \in Workers :
        (Done(w) /\ ProcessFailed(w) /\ getRetryCount(Msg(w)) < maxRetries)
            => /\ \E i, j \in DOMAIN Calls(w) :
                    i < j /\ IsRequeue(Calls(w)[i]) /\ IsDelete(Calls(w)[j])
               /\ (\A i \in DOMAIN Calls(w) : Calls(w)[i].ok \/ IsProcess(Calls(w)[i]))
                    => Msg(w).state = "deleted"

\* C5: a worker whose ProcessEvent failed on a message under maxRetries has
\* issued, when it finishes, exactly one SendMessage, to the main queue, and
\* no DeleteMessage and no SendMessage to the DLQ.
C5_RequeueOnly ==
    \A w \in Workers :
        (Done(w) /\ ProcessFailed(w) /\ getRetryCount(Msg(w)) < maxRetries)
            => Ops(w) = <<<<"ProcessEvent", "-">>, <<"SendMessage", "main">>>>

C5_Witness ==
    \E w \in Workers :
        /\ Done(w) /\ ProcessFailed(w) /\ getRetryCount(Msg(w)) < maxRetries
        /\ Calls(w)[2].ok
        /\ Requeues(workers[w].msg) # {}

\* C6: a worker started on a message whose RetryCount equals maxRetries
\* invokes ProcessEvent on it first, and sends it to the DLQ only if that
\* invocation failed.
C6_ProcessedOnceMore ==
    \A w \in Workers :
        (Done(w) /\ IsJSON(Msg(w).body) /\ getRetryCount(Msg(w)) = maxRetries)
            => /\ IsProcess(Calls(w)[1])
               /\ (\E i \in DOMAIN Calls(w) : IsDLQSend(Calls(w)[i])) => ~Calls(w)[1].ok

\* C7: a worker started on a message whose RetryCount is at or over
\* maxRetries never invokes ProcessEvent; when it finishes it has issued the
\* SendMessage to the DLQ and then the DeleteMessage, and with both successful
\* the message is in the DLQ and off the main queue.
C7_DLQWithoutProcessing ==
    \A w \in Workers :
        (workers[w].msg # 0 /\ getRetryCount(Msg(w)) >= maxRetries)
            => /\ ~\E i \in DOMAIN Calls(w) : IsProcess(Calls(w)[i])
               /\ Done(w) =>
                    /\ Ops(w) = <<<<"SendMessage", "dlq">>, <<"DeleteMessage", "main">>>>
                    /\ (Calls(w)[1].ok /\ Calls(w)[2].ok)
                         => InDLQ(workers[w].msg) /\ Msg(w).state = "deleted"

C7_Witness ==
    \E w \in Workers :
        /\ Done(w) /\ getRetryCount(Msg(w)) >= maxRetries
        /\ Len(Calls(w)) = 2 /\ Calls(w)[1].ok /\ Calls(w)[2].ok
        /\ InDLQ(workers[w].msg) /\ Msg(w).state = "deleted"

\* C8: in every run, a DeleteMessage that follows neither a successful
\* ProcessEvent nor a re-enqueue (the run is a terminal failure) comes after
\* the SendMessage to the DLQ, and no SendMessage to the DLQ follows a
\* DeleteMessage.
C8_DLQBeforeAck ==
    \A w \in Workers : \A j \in DOMAIN Calls(w) :
        /\ (/\ IsDelete(Calls(w)[j])
            /\ ~\E i \in 1..(j - 1) :
                  \/ IsProcess(Calls(w)[i]) /\ Calls(w)[i].ok
                  \/ IsRequeue(Calls(w)[i]))
              => \E i \in 1..(j - 1) : IsDLQSend(Calls(w)[i])
        /\ IsDLQSend(Calls(w)[j])
              => ~\E i \in 1..(j - 1) : IsDelete(Calls(w)[i])

C8_Witness ==
    \E w \in Workers : \E i, j \in DOMAIN Calls(w) :
        /\ i < j /\ IsDLQSend(Calls(w)[i]) /\ Calls(w)[i].ok
        /\ IsDelete(Calls(w)[j]) /\ Calls(w)[j].ok
        /\ Msg(w).state = "deleted"

\* C9: a finished worker whose SendMessage to the DLQ succeeded has issued a
\* DeleteMessage of the original after it.
C9_DLQThenAck ==
    \A w \in Workers :
        Done(w) => \A i \in DOMAIN Calls(w) :
            (IsDLQSend(Calls(w)[i]) /\ Calls(w)[i].ok)
                => \E j \in DOMAIN Calls(w) : i < j /\ IsDelete(Calls(w)[j])

C9_Witness ==
    \E w \in Workers :
        /\ Done(w) /\ ProcessFailed(w)
        /\ \E i, j \in DOMAIN Calls(w) :
              i < j /\ IsDLQSend(Calls(w)[i]) /\ Calls(w)[i].ok /\ IsDelete(Calls(w)[j])

\* C10: a re-enqueued message that carries RetryCount = n has a DelaySeconds
\* of min(2^n, 300).
C10_ExponentialBackoff ==
    \A j \in DOMAIN msgs :
        msgs[j].parent # 0 =>
            msgs[j].delay = Min(2 ^ Atoi(msgs[j].RetryCount.str).val, maxDelaySeconds)

\* C11: every re-enqueued message carries a RetryCount attribute whose value
\* is the retry count the consumer reads from the message it was re-enqueued
\* from, plus one; so the count read never decreases from a message to its
\* re-enqueued copy.
C11_RetryCountIncrement ==
    \A j \in DOMAIN msgs :
        msgs[j].parent # 0 =>
            /\ msgs[j].RetryCount.present
            /\ Atoi(msgs[j].RetryCount.str).ok
            /\ Atoi(msgs[j].RetryCount.str).val = getRetryCount(msgs[msgs[j].parent]) + 1
            /\ getRetryCount(msgs[j]) >= getRetryCount(msgs[msgs[j].parent])

C11_Witness ==
    \E j, k \in DOMAIN msgs :
        /\ msgs[j].parent = k /\ msgs[k].parent # 0
        /\ getRetryCount(msgs[j]) = getRetryCount(msgs[msgs[k].parent]) + 2

\* ------------------------------------------------------------ error kinds
\* the error of ProcessEvent begins with the name of the step that failed
ErrorStep(err) == IF err = NoError THEN "" ELSE err[1]

IsValidationError(err) == ErrorStep(err) = "validation failed: "
IsTriageError(err) == ErrorStep(err) = "triage failed: "
IsPersistError(err) == ErrorStep(err) = "persistence failed: "

\* C12: a finished run whose ProcessEvent failed with a validation error or a
\* triage error has sent the message to the DLQ and then issued its
\* DeleteMessage, has re-enqueued nothing and has passed nothing to SaveEvent.
C12_TerminalErrorsToDLQ ==
    \A w \in Workers : \A i \in DOMAIN Calls(w) :
        (/\ Done(w)
         /\ IsProcess(Calls(w)[i])
         /\ IsValidationError(Calls(w)[i].err) \/ IsTriageError(Calls(w)[i].err))
            => /\ \E j, k \in DOMAIN Calls(w) :
                    i < j /\ j < k /\ IsDLQSend(Calls(w)[j]) /\ IsDelete(Calls(w)[k])
               /\ ~\E j \in DOMAIN Calls(w) : IsRequeue(Calls(w)[j])
               /\ Calls(w)[i].saves = <<>>

ProcessDone == proc.in.fn = "ProcessEvent" /\ proc.done
TriageDone == proc.in.fn = "triageEvent" /\ proc.done
PermissionDone == proc.in.fn = "validateClientPermissions" /\ proc.done

\* the document is JSON that the schema accepts and the business rules pass
Valid(doc) ==
    /\ doc.json /\ doc.schema
    /\ IsValidEventType(doc.event.EventType)
    /\ doc.event.ClientID # ""
    /\ DOMAIN doc.event.Payload # {}
    /\ doc.event.Timestamp # 0

RequiredFields(eventType) ==
    IF eventType = EventTypeUserAction THEN {"userId", "action", "resource"}
    ELSE IF eventType = EventTypeTransaction THEN {"transactionId", "amount", "currency"}
    ELSE IF eventType = EventTypeIntegration THEN {"source", "target", "operation"}
    ELSE {}

\* the payload has every field that the type of the event requires
HasRequired(event) == RequiredFields(event.EventType) \subseteq DOMAIN event.Payload

\* the client has a policy, and the policy is inactive or does not allow the
\* type
Denied(eventType, getItem) ==
    /\ ~getItem.err /\ getItem.found
    /\ getItem.active = "false" \/ eventType \notin getItem.allowed_types

C15_PolicyFailClosed ==
    /\ (PermissionDone /\ proc.in.getItem.err) => proc.out # NoError
    /\ (ProcessDone /\ proc.in.getItem.err)
          => \A i \in DOMAIN proc.out.saves :
                proc.out.saves[i].Status # EventStatusProcessed

\* C16: when the client has no item, the permission check returns nil, and
\* ProcessEvent on a valid document whose event has its required fields
\* stores the envelope with status processed (the write succeeding).
C16_PolicyOpenDefault ==
    /\ (PermissionDone /\ proc.in.getItem = NoItem) => proc.out = NoError
    /\ (ProcessDone /\ proc.in.getItem = NoItem /\ proc.in.putOK
             /\ Valid(proc.in.doc) /\ HasRequired(proc.in.doc.event))
          => /\ proc.out.err = NoError /\ proc.out.stored
             /\ Len(proc.out.saves) = 1
             /\ proc.out.saves[1].Status = EventStatusProcessed
             /\ store[proc.in.doc.event.EventID].status = EventStatusProcessed

C16_Witness ==
    /\ ProcessDone /\ proc.in.getItem = NoItem /\ proc.in.putOK
    /\ Valid(proc.in.doc) /\ proc.in.doc.event.EventType = EventTypeTransaction
    /\ HasRequired(proc.in.doc.event)
    /\ store["e1"].status = EventStatusProcessed

\* C17: for a client whose policy is found, the permission check returns
\* "client <id> is not active" when active is false, "client <id> is not
\* allowed to send events of type <T>" when active is true and the type is not
\* among the allowed types, and nil exactly when active is true and the type
\* is allowed.
C17_Authorize ==
    (PermissionDone /\ ~proc.in.getItem.err /\ proc.in.getItem.found) =>
        LET active == GetClientConfig(proc.in.clientID, proc.in.getItem).config.Active
            allowed == proc.in.eventType \in proc.in.getItem.allowed_types
        IN  /\ ~active => proc.out = <<"client ", proc.in.clientID, " is not active">>
            /\ (active /\ ~allowed)
                  => proc.out = <<"client ", proc.in.clientID,
                                  " is not allowed to send events of type ",
                                  proc.in.eventType>>
            /\ (proc.out = NoError) <=> (active /\ allowed)

C17_Witness ==
    /\ PermissionDone /\ proc.in.getItem.found
    /\ proc.in.getItem.active = "false"
    /\ proc.in.eventType \in proc.in.getItem.allowed_types
    /\ Contains(proc.out, " is not active")

\* C18: every envelope ProcessEvent passes to SaveEvent with status processed
\* is of a document the validator accepted, of an event of a known type with
\* its required fields (triage raised no error and marked no failure), for
\* which the permission check returned nil.
C18_ProcessedImpliesAllSucceeded ==
    ProcessDone =>
        \A i \in DOMAIN proc.out.saves :
            proc.out.saves[i].Status = EventStatusProcessed
                => /\ Valid(proc.in.doc)
                   /\ HasRequired(proc.in.doc.event)
                   /\ ~Denied(proc.in.doc.event.EventType, proc.in.getItem)
                   /\ proc.out.triage.err = NoError
                   /\ proc.out.triage.permErr = NoError

C18_Witness ==
    /\ ProcessDone /\ proc.out.stored
    /\ proc.out.saves[1].Status = EventStatusProcessed
    /\ proc.in.getItem.found /\ proc.in.getItem.active = "true"
    /\ proc.in.doc.event.EventType = EventTypeUserAction

C20_StartContract ==
    [][\A c \in Callers :
          /\ (StartCheck(c) /\ isRunning)
                => /\ callers'[c].pc = "returned"
                   /\ Contains(callers'[c].ret, "consumer is already running")
                   /\ isRunning' /\ loops' = loops
          /\ (StartCheck(c) /\ ~isRunning) => callers'[c].pc # "returned"
          /\ (callers[c].op = "Start" /\ callers[c].pc # "returned"
                  /\ callers'[c].pc = "returned")
                => /\ callers'[c].ret = NoError
                   /\ isRunning'
                   /\ loops' = loops + 1]_vars

C20_Witness ==
    \E c, d \in Callers :
        /\ callers[c].op = "Start" /\ callers[c].pc = "returned"
        /\ callers[c].ret = NoError
        /\ callers[d].op = "Start" /\ callers[d].pc = "returned"
        /\ Contains(callers[d].ret, "consumer is already running")
        /\ isRunning /\ loops = 1

\* the calls of Start that returned nil
StartedNil == {c \in Callers : /\ callers[c].op = "Start"
                               /\ callers[c].pc = "returned"
                               /\ callers[c].ret = NoError}

\* no call of Stop has cleared isRunning or closed stopChan
NeverStopped ==
    /\ stopChan = "open"
    /\ \A c \in Callers : callers[c].pc # "Stop:close"

\* C21: the is-running flag is guarded: however concurrent calls of Start (and
\* of Start with Stop) interleave, at most one Start returns nil and at most
\* one receive loop is active at a time.
C21_GuardedStart ==
    /\ loops <= 1
    /\ NeverStopped => Cardinality(StartedNil) <= 1

\* no worker is running processMessage: the drain is complete
Drained == \A w \in Workers : Free(w)

\* C22: Stop on a running consumer returns on the first of: the context is
\* done, all in-flight workers have finished, the 5 s deadline has passed;
\* when the drain completes first, Stop returns without error.  With no worker
\* in flight the drain is complete the moment Stop signals the loop.
C22_StopReturnsOnDrain ==
    \A c \in Callers :
        (/\ callers[c].op = "Stop"
         /\ callers[c].pc = "returned"
         /\ Drained) => callers[c].ret = NoError

\* a goroutine is started on a message of a batch in this step
Dispatched == \E w \in Workers : workers'[w].pc = "entry" /\ workers[w].pc # "entry"

\* C23: after Stop has signalled the receive loop, no ReceiveMessage result is
\* dispatched to workers, the result of a long poll that was in progress at
\* the signal included.
C23_NoReceiveAfterStop == [][stopChan = "closed" => ~Dispatched]_vars

\* a call of Stop has returned because its five seconds had passed
StopTimedOut ==
    \E c \in Callers : /\ callers[c].op = "Stop"
                       /\ callers[c].pc = "returned"
                       /\ callers[c].ret = <<"timeout waiting for consumer to stop">>

LastCall(w) == workers'[w].calls[Len(workers'[w].calls)]

\* a worker calls ProcessEvent in this step and ProcessEvent calls SaveEvent
SavesEvent ==
    \E w \in Workers : /\ Len(workers'[w].calls) > Len(workers[w].calls)
                       /\ LastCall(w).op = "ProcessEvent"
                       /\ LastCall(w).saves # <<>>

\* C24: once Stop has returned because the drain deadline expired, no worker
\* performs a SaveEvent on the record store.
C24_NoSaveAfterDeadline == [][StopTimedOut => ~SavesEvent]_vars

\* the most goroutines the pool allows: its size, the batch size where no
\* pool size is configured
PoolBound == IF pool.size > 0 THEN pool.size ELSE batchSize

\* C25: the worker pool is bounded: at every moment, across all batches, the
\* goroutines running processMessage are at most the pool size (the batch size
\* when no pool size is configured).
C25_BoundedPool == Cardinality(pool.running) <= PoolBound

ReceivesStraightAfterFailure == polls' = polls + 1 /\ failed' = failed - 1

\* C27: a failed receive never terminates the receive loop and is followed by
\* a pause before the next receive is issued.
C27_PauseAfterFailedReceive ==
    [][/\ ~ReceivesStraightAfterFailure
       /\ failed' > failed => loops' = loops]_vars

\* C28: the body of every message sent to the DLQ, and of every message
\* re-enqueued to the main queue, equals byte for byte the body of the message
\* that was received.
C28_BodyPreserved ==
    /\ \A k \in DOMAIN dlq : dlq[k].body = msgs[dlq[k].from].body
    /\ \A i \in DOMAIN msgs :
          msgs[i].parent # 0 => msgs[i].body = msgs[msgs[i].parent].body

\* C29: the OriginalMessageId attribute of a DLQ message is the message id of
\* the first delivery of the logical message, not the id of a re-enqueued
\* copy.
C29_OriginalMessageId ==
    \A k \in DOMAIN dlq : dlq[k].OriginalMessageId = msgs[dlq[k].from].root

\* a decimal integer: an optional sign and one or more digits, nothing else
Unsigned(str) == IF str # <<>> /\ str[1] \in {"+", "-"} THEN Tail(str) ELSE str

IsNumeric(str) ==
    /\ Unsigned(str) # <<>>
    /\ \A i \in 1..Len(Unsigned(str)) : IsDigit(Unsigned(str)[i])

NumericValue(str) ==
    IF str[1] = "-" THEN 0 - DigitsValue(Unsigned(str)) ELSE DigitsValue(Unsigned(str))

RetryDone == proc.in.fn = "getRetryCount" /\ proc.done

\* C30: the attempt counter read from a message is the integer value of its
\* RetryCount attribute when that attribute is present and numeric, and 0
\* when the attribute is absent or its value is not a number.
C30_AttemptCounter ==
    RetryDone =>
        LET a == proc.in.message.RetryCount
        IN  proc.out = IF a.present /\ IsNumeric(a.str) THEN NumericValue(a.str) ELSE 0

\* C31: triage never mutates the payload map of the input Event: after
\* triageEvent the keys and values of Event.Payload are what they were before
\* (the enrichment keys appear in the envelope's payload only).
C31_PayloadNotMutated ==
    TriageDone => proc.out.event.Payload = proc.in.event.Payload

TwiceDone == proc.in.fn = "triageEvent twice" /\ proc.done

\* C32: two successive successful processings of the same Event yield
\* envelopes whose event_id, status and payload content are identical (they
\* differ in processed_at and ttl only).
C32_IdempotentEnvelope ==
    (TwiceDone /\ \A k \in 1..2 : proc.out[k].Status = EventStatusProcessed)
        => /\ proc.out[1].EventID = proc.out[2].EventID
           /\ proc.out[1].Status = proc.out[2].Status
           /\ proc.out[1].Payload = proc.out[2].Payload

\* C36: in every envelope, ttl equals processed_at in epoch seconds plus
\* exactly thirty days (2,592,000 s), and the item SaveEvent writes carries
\* that ttl unchanged.
C36_TTL ==
    proc.in.fn = "triageEvent twice" =>
        \A k \in DOMAIN proc.out :
            /\ proc.out[k].TTL = Unix(proc.out[k].ProcessedAt) + thirtyDays
            /\ SavedTimes(proc.out[k]).ttl = proc.out[k].TTL

\* a worker returns from ProcessEvent in this step
ProcessReturns(w) ==
    /\ Len(workers'[w].calls) > Len(workers[w].calls)
    /\ LastCall(w).op = "ProcessEvent"

\* C33: after any sequence of deliveries, redeliveries and retries the record
\* store holds at most one record per event_id, and that record is the
\* envelope written by the most recent successful SaveEvent for that event_id:
\* a successful save replaces the record of its event_id and no other, and
\* nothing else changes the store.
C33_LatestSaveWins ==
    [][/\ \A id \in DOMAIN store' : store'[id].event_id = id
       /\ \A w \in Workers :
             (ProcessReturns(w) /\ LastCall(w).stored)
                => /\ store'[LastCall(w).saves[1].EventID] = SavedItem(LastCall(w).saves[1])
                   /\ \A id \in DOMAIN store' \ {LastCall(w).saves[1].EventID} :
                         id \in DOMAIN store /\ store'[id] = store[id]
       /\ (\A w \in Workers : ~(ProcessReturns(w) /\ LastCall(w).stored))
             => store' = store]_vars

\* the event was saved and acknowledged in vain (DeleteMessage failed), was
\* delivered again and saved again: the store holds the second envelope
C33_Witness ==
    /\ impl = "v1" /\ procCount[1] = 2 /\ Len(msgs) = 1 /\ dlq = <<>> /\ faults = 1
    /\ \E w \in Workers :
          /\ Calls(w) # <<>>
          /\ Calls(w)[1].op = "ProcessEvent" /\ Calls(w)[1].stored
          /\ DOMAIN store = {Calls(w)[1].saves[1].EventID}
          /\ store[Calls(w)[1].saves[1].EventID] = SavedItem(Calls(w)[1].saves[1])
          /\ store[Calls(w)[1].saves[1].EventID].status = EventStatusFailed

\* the required keys of a type in the order the claim lists them, and the
\* word the error uses for the type
ListedFields(eventType) ==
    IF eventType = EventTypeUserAction THEN <<"userId", "action", "resource">>
    ELSE IF eventType = EventTypeTransaction THEN <<"transactionId", "amount", "currency">>
    ELSE <<"source", "target", "operation">>

TypeWord(eventType) ==
    IF eventType = EventTypeUserAction THEN "user action"
    ELSE IF eventType = EventTypeTransaction THEN "transaction"
    ELSE "integration"

FirstAbsent(fields, payload) ==
    fields[CHOOSE i \in 1..Len(fields) :
              /\ fields[i] \notin DOMAIN payload
              /\ \A j \in 1..(i - 1) : fields[j] \in DOMAIN payload]

\* C34: for user_action, transaction and integration events, triage fails iff
\* at least one of the type's required payload keys is absent; the error names
\* the first absent key in the listed order and no envelope is produced.
C34_RequiredFields ==
    (TriageDone /\ proc.in.event.EventType \in
                     {EventTypeUserAction, EventTypeTransaction, EventTypeIntegration})
        => LET e == proc.in.event
           IN  /\ (proc.out.err # NoError) <=> ~HasRequired(e)
               /\ ~HasRequired(e)
                     => /\ ~proc.out.hasEnvelope
                        /\ proc.out.err =
                              <<"missing required field for " \o TypeWord(e.EventType) \o ": ",
                                FirstAbsent(ListedFields(e.EventType), e.Payload)>>
               /\ HasRequired(e) => proc.out.hasEnvelope

\* a transaction that lacks its second and third key is refused for the second
C34_Witness ==
    /\ TriageDone
    /\ proc.in.event.EventType = EventTypeTransaction
    /\ "transactionId" \in DOMAIN proc.in.event.Payload
    /\ "amount" \notin DOMAIN proc.in.event.Payload
    /\ "currency" \notin DOMAIN proc.in.event.Payload
    /\ proc.out.err = <<"missing required field for transaction: ", "amount">>
    /\ ~proc.out.hasEnvelope

\* triageEvent has returned on a transaction event that has its three keys
TransactionDone ==
    /\ TriageDone
    /\ proc.in.event.EventType = EventTypeTransaction
    /\ HasRequired(proc.in.event)

\* C35: for a transaction event that has all required keys, the envelope
\* payload contains highValue = true iff amount is numeric and strictly
\* greater than 10000; an amount of exactly 10000, a smaller amount or a
\* non-numeric amount leaves the highValue key absent and does not fail
\* triage.
C35_HighValue ==
    TransactionDone =>
        LET amount == proc.in.event.Payload["amount"]
            high == amount.type = "float64" /\ amount.v > 10000
            payload == proc.out.pe.Payload
        IN  /\ proc.out.err = NoError /\ proc.out.hasEnvelope
            /\ high => "highValue" \in DOMAIN payload /\ payload["highValue"] = BoolValue(TRUE)
            /\ ~high => "highValue" \notin DOMAIN payload

\* an amount of exactly 10000 is not flagged
C35_Witness ==
    /\ TransactionDone
    /\ proc.in.event.Payload["amount"] = NumberValue(10000)
    /\ proc.out.hasEnvelope
    /\ "highValue" \notin DOMAIN proc.out.pe.Payload


\* C37: in every envelope passed to SaveEvent, error_msg is non-empty iff
\* status = failed, and the stored item has an error_msg attribute iff
\* error_msg is non-empty.
C37_ErrorMsgIffFailed ==
    ProcessDone =>
        \A k \in 1..Len(proc.out.saves) :
            LET pe == proc.out.saves[k]
            IN  /\ (pe.ErrorMsg # NoError) <=> (pe.Status = EventStatusFailed)
                /\ SavedItem(pe).has_error_msg <=> (pe.ErrorMsg # NoError)
                /\ proc.out.stored =>
                      /\ pe.EventID \in DOMAIN store
                      /\ store[pe.EventID].has_error_msg <=> (pe.Status = EventStatusFailed)
                      /\ store[pe.EventID].error_msg = pe.ErrorMsg

\* a failed envelope was saved and its item carries the message; the call
\* itself returned nil
C37_Witness ==
    /\ ProcessDone /\ proc.out.stored /\ proc.out.err = NoError
    /\ proc.out.saves[1].Status = EventStatusFailed
    /\ proc.out.saves[1].ErrorMsg # NoError
    /\ store[proc.out.saves[1].EventID].has_error_msg


\* ------------------------------------------------------------ a message that always fails
\* what the producer may send whose processing fails on every attempt,
\* whatever the client lookup and the write to the record store return
FailingInputs ==
    {inp \in InitInputs :
        \A res \in ProcessEventResults(inp[1]) : res.err # NoError}

InitFailing ==
    /\ impl \in Variants
    /\ \E inp \in FailingInputs : msgs = <<NewMsg(inp[1], inp[2], 1)>>
    /\ dlq = <<>>
    /\ processed = {}
    /\ workers = [w \in Workers |-> IdleWorker]
    /\ procCount = <<0>>
    /\ faults = 0
    /\ store = EmptyStore
    /\ proc = NoCall
    /\ InitLife
    /\ pool = NoPool

\* one step of the goroutine that runs processMessage
WorkerStep(w) ==
    \/ processMessageEntryV2(w)
    \/ processMessageProcessV2(w)
    \/ processMessageEntryV1(w)
    \/ processMessageProcessV1(w)
    \/ requeueMessage(w)
    \/ sendToDLQ(w)
    \/ deleteMessage(w)

\* The receive loop polls for as long as the consumer runs (sqs_consumer.go
\* 88-104, part_002 68-84), a started goroutine runs to its return, and the
\* backend ends every visibility timeout.
Fairness ==
    /\ WF_vars(pollMessages)
    /\ \A i \in 1..MaxMsgs : WF_vars(i \in DOMAIN msgs /\ VisibilityTimeout(i))
    /\ \A w \in Workers : WF_vars(WorkerStep(w))

SpecFair == InitFailing /\ [][Next]_vars /\ Fairness

\* the DLQ holds the message and no copy of it is left on the main queue
DeadLettered ==
    /\ \E d \in DOMAIN dlq : msgs[dlq[d].from].root = 1
    /\ \A i \in DOMAIN msgs : msgs[i].state = "deleted"

\* In the consumer of sqs_consumer.go the original of a failing message is
\* never deleted, so that state is not reached at all: where a behaviour of
\* the model ends is where the bounds on invocations and copies end it, while
\* the consumer goes on receiving the original and adding copies.
NeverDeadLetteredV2 == impl = "v2" => ~DeadLettered

StopCalled(c) ==
    /\ callers[c].pc \in {"idle", "returned"}
    /\ callers'[c].calls = callers[c].calls + 1
    /\ callers'[c].op = "Stop"

\* Stop on a consumer that is not running returns nil and changes no state
StopWhenNotRunning ==
    \A c \in Callers :
        (StopCalled(c) /\ ~isRunning) =>
            /\ callers'[c].pc = "returned" /\ callers'[c].ret = NoError
            /\ UNCHANGED <<consumerVars, isRunning, stopChan, loops, polls, receiving, failed, panicked>>

\* C39: for any sequence of Start and Stop calls on one consumer (including
\* Stop, Start, Stop), the stop channel is closed at most once, so no Stop call
\* panics; Stop on a consumer that is not running returns nil and changes no
\* state.
C39_StopClosesOnce ==
    [][/\ stopChan = "closed" => \A c \in Callers : callers[c].pc # "Stop:close"
       /\ ~panicked'
       /\ StopWhenNotRunning]_vars


\* a receive loop is active: a consumeMessages goroutine exists and its
\* select can take the default case
LoopActive == loops > 0 /\ stopChan = "open"

\* C40: in every reachable state, isRunning is true exactly when a receive
\* loop is active: after Stop isRunning is false, and whenever Start has
\* returned nil and Stop has not been called since (also when Start follows an
\* earlier Stop), a receive loop keeps polling the main queue. Stated for the
\* states between calls.
C40_RunningIffLoopActive ==
    Quiet =>
        /\ isRunning => LoopActive
        /\ ~isRunning => loops = 0

====
